---------------------------- MODULE Spec2Model ----------------------------
(***************************************************************************)
(* rChess: the game state machine (src/src/game.rs) and the adversarial    *)
(* search (src/src/ai.rs).                                                 *)
(*                                                                         *)
(* The `chess` crate (Board, ChessMove, MoveGen, BoardStatus) is an        *)
(* external collaborator of the repository.  It is modelled here by a      *)
(* complete miniature chess with the same interface: one-dimensional chess *)
(* after Gardner (king, knight and rook per side on a single rank of eight *)
(* squares).  It has check, checkmate, stalemate, captures and a fixed     *)
(* move order, which is everything game.rs and ai.rs consume from the      *)
(* crate; both sides can be mated within three plies of the start.         *)
(***************************************************************************)
EXTENDS Integers, Sequences, FiniteSets, TLC

(***************************************************************************)
(* Bounds of the model.                                                    *)
(***************************************************************************)
\* longest move log the game actions build
MaxPlies == 3
\* largest recursion_depth given to new_single / largest depth searched
MaxDepth == 3

(***************************************************************************)
(* Rust values.                                                            *)
(***************************************************************************)
None == <<>>
Some(x) == <<x>>
unwrap(o) == o[1]
Ok(x) == <<"Ok", x>>
Err(e) == <<"Err", e>>
is_ok(r) == r[1] = "Ok"
Unit == <<>>
\* a panic: the call aborts instead of returning.  No value of the return
\* types below has three components.
Panic(msg) == <<"panic", msg, Unit>>
is_panic(r) == Len(r) = 3

I32_MAX == 2147483647
I32_MIN == -2147483647 - 1

Color == {"White", "Black"}
\* `!color`
Not(c) == IF c = "White" THEN "Black" ELSE "White"

(***************************************************************************)
(* The rules oracle (crate `chess`), as one-dimensional chess.             *)
(* A square holds None or Some piece of a colour: <<>> or <<piece,colour>>.*)
(***************************************************************************)
DefaultCells ==
  << <<"King", "White">>, <<>>, <<"Rook", "White">>, <<"Knight", "White">>,
     <<"Knight", "Black">>, <<"Rook", "Black">>, <<>>, <<"King", "Black">> >>

ALL_SQUARES == 1..Len(DefaultCells)

\* Board::default()
Board_default == [cells |-> DefaultCells, side_to_move |-> "White"]

piece_on(board, square) ==
  IF board.cells[square] = <<>> THEN None ELSE Some(board.cells[square][1])

color_on(board, square) ==
  IF board.cells[square] = <<>> THEN None ELSE Some(board.cells[square][2])

\* ChessMove::new(source, dest)
ChessMove(source, dest) == [source |-> source, dest |-> dest]

\* the squares strictly between two squares of the rank
Between(i, j) == {k \in ALL_SQUARES : (i < k /\ k < j) \/ (j < k /\ k < i)}

\* whether the piece on `source` moves to `dest`, own king's safety aside:
\* the king one step, the knight a jump of two, the rook along free squares
Reaches(board, source, dest) ==
  LET piece == board.cells[source][1]
      dist  == IF dest > source THEN dest - source ELSE source - dest
  IN  /\ dest # source
      /\ color_on(board, dest) # color_on(board, source)
      /\ CASE piece = "King"   -> dist = 1
           [] piece = "Knight" -> dist = 2
           [] piece = "Rook"   -> \A k \in Between(source, dest) : board.cells[k] = <<>>
           [] OTHER            -> FALSE

\* whether `color`'s king stands attacked
InCheck(board, color) ==
  \E k \in ALL_SQUARES :
     /\ board.cells[k] = <<"King", color>>
     /\ \E i \in ALL_SQUARES :
          /\ color_on(board, i) = Some(Not(color))
          /\ Reaches(board, i, k)

\* Board::make_move_new
make_move_new(board, m) ==
  [cells |-> [board.cells EXCEPT ![m.dest] = board.cells[m.source],
                                 ![m.source] = <<>>],
   side_to_move |-> Not(board.side_to_move)]

\* Board::legal
legal(board, m) ==
  /\ m.source \in ALL_SQUARES
  /\ m.dest \in ALL_SQUARES
  /\ color_on(board, m.source) = Some(board.side_to_move)
  /\ Reaches(board, m.source, m.dest)
  /\ ~InCheck(make_move_new(board, m), board.side_to_move)

\* every (source, dest) pair in the generator's order: by source, then by dest
AllMoves ==
  LET n == Len(DefaultCells)
  IN  [k \in 1..(n * n) |-> ChessMove(((k - 1) \div n) + 1, ((k - 1) % n) + 1)]

\* MoveGen::new_legal(board), as the sequence it yields
MoveGen_new_legal(board) == SelectSeq(AllMoves, LAMBDA m : legal(board, m))

\* Board::status
Board_status(board) ==
  IF MoveGen_new_legal(board) # <<>> THEN "Ongoing"
  ELSE IF InCheck(board, board.side_to_move) THEN "Checkmate"
  ELSE "Stalemate"

(***************************************************************************)
(* src/src/ai.rs                                                           *)
(***************************************************************************)
piece_value(piece) ==
  CASE piece = "Pawn"   -> 1
    [] piece = "Knight" -> 3
    [] piece = "Bishop" -> 3
    [] piece = "Rook"   -> 5
    [] piece = "Queen"  -> 9
    [] piece = "King"   -> 20

RECURSIVE evaluate_from(_, _, _)
\* evaluate that counts the perspective side's pieces only
evaluate_from_own_only(board, perspective, square) ==
  IF square \notin ALL_SQUARES THEN 0
  ELSE LET rest == evaluate_from(board, perspective, square + 1)
       IN  IF color_on(board, square) = Some(perspective)
           THEN rest + piece_value(unwrap(piece_on(board, square)))
           ELSE rest

\* the loop of evaluate over the squares from `square` on
evaluate_from(board, perspective, square) ==
  IF square \notin ALL_SQUARES THEN 0
  ELSE LET rest == evaluate_from(board, perspective, square + 1)
       IN  IF piece_on(board, square) # None
           THEN IF color_on(board, square) = Some(perspective)
                THEN rest + piece_value(unwrap(piece_on(board, square)))
                ELSE rest - piece_value(unwrap(piece_on(board, square)))
           ELSE rest

\* evaluate that scores a checkmate as the largest or the smallest i32
evaluate_mate_is_extreme(board, perspective) ==
  IF Board_status(board) = "Checkmate"
  THEN IF board.side_to_move = perspective THEN I32_MIN ELSE I32_MAX
  ELSE evaluate_from(board, perspective, 1)

evaluate(board, perspective) == evaluate_from(board, perspective, 1)

\* best_eval initialised the wrong way round
initial_best_eval_swapped(maximizing) == IF maximizing THEN I32_MAX ELSE I32_MIN

\* `let mut best_eval = if maximizing { i32::MIN } else { i32::MAX }`
initial_best_eval(maximizing) == IF maximizing THEN I32_MIN ELSE I32_MAX

\* the cut-off test with its operands exchanged
cutoff_reversed(alpha, beta) == alpha <= beta

\* `if beta <= alpha { break; }`
cutoff(alpha, beta) == beta <= alpha

\* the test that ends the recursion, without its `board.status()` half
base_case_depth_only(board, depth) == depth = 0

\* the test that ends the recursion, without its `depth == 0` half
base_case_status_only(board, depth) == Board_status(board) # "Ongoing"

\* `if depth == 0 || board.status() != BoardStatus::Ongoing`
base_case(board, depth) == depth = 0 \/ Board_status(board) # "Ongoing"

\* the recursive call made with the caller's own depth
child_depth_same(depth) == Some(depth)

\* `depth - 1` on a u32: None when the subtraction overflows
child_depth(depth) == IF depth >= 1 THEN Some(depth - 1) ELSE None

RECURSIVE minimax(_, _, _, _, _, _)
RECURSIVE minimax_for(_, _, _, _, _, _, _)

\* one call of minimax: <<eval, best_move>>, or the panic raised below it
minimax(board, depth, maximizing, perspective, alpha, beta) ==
  IF base_case(board, depth)
  THEN <<evaluate(board, perspective), None>>
  ELSE minimax_for(board, depth, maximizing, perspective,
                   MoveGen_new_legal(board), 1,
                   [alpha |-> alpha, beta |-> beta, best_move |-> None,
                    best_eval |-> initial_best_eval(maximizing)])

\* the loop with `>=` and `<=` in the comparisons that replace best_move
minimax_for_last_wins(board, depth, maximizing, perspective, gen, i, v) ==
  IF i > Len(gen) THEN <<v.best_eval, v.best_move>>
  ELSE IF child_depth(depth) = None THEN Panic("attempt to subtract with overflow")
  ELSE LET m == gen[i]
           new_board == make_move_new(board, m)
           r == minimax(new_board, unwrap(child_depth(depth)), ~maximizing,
                        Not(perspective), v.alpha, v.beta)
           eval == r[1]
           better == IF maximizing THEN eval >= v.best_eval ELSE eval <= v.best_eval
           w == [best_eval |-> IF better THEN eval ELSE v.best_eval,
                 best_move |-> IF better THEN Some(m) ELSE v.best_move,
                 alpha |-> IF maximizing /\ eval > v.alpha THEN eval ELSE v.alpha,
                 beta  |-> IF ~maximizing /\ eval < v.beta THEN eval ELSE v.beta]
       IN  IF is_panic(r) THEN r
           ELSE IF cutoff(w.alpha, w.beta)
           THEN <<w.best_eval, w.best_move>>
           ELSE minimax_for(board, depth, maximizing, perspective, gen, i + 1, w)

\* the `for m in MoveGen::new_legal(board)` loop from its i-th move on, with
\* the loop's mutable locals in `v`
minimax_for(board, depth, maximizing, perspective, gen, i, v) ==
  IF i > Len(gen) THEN <<v.best_eval, v.best_move>>
  ELSE IF child_depth(depth) = None THEN Panic("attempt to subtract with overflow")
  ELSE LET m == gen[i]
           new_board == make_move_new(board, m)
           r == minimax(new_board, unwrap(child_depth(depth)), ~maximizing,
                        Not(perspective), v.alpha, v.beta)
           eval == r[1]
           better == IF maximizing THEN eval > v.best_eval ELSE eval < v.best_eval
           w == [best_eval |-> IF better THEN eval ELSE v.best_eval,
                 best_move |-> IF better THEN Some(m) ELSE v.best_move,
                 alpha |-> IF maximizing /\ eval > v.alpha THEN eval ELSE v.alpha,
                 beta  |-> IF ~maximizing /\ eval < v.beta THEN eval ELSE v.beta]
       IN  IF is_panic(r) THEN r
           ELSE IF cutoff(w.alpha, w.beta)
           THEN <<w.best_eval, w.best_move>>
           ELSE minimax_for(board, depth, maximizing, perspective, gen, i + 1, w)


(***************************************************************************)
(* Move notation (crate `chess`): the text of a move is a sequence of      *)
(* characters.  A square of the rank is named by its file letter.          *)
(***************************************************************************)
FileChars == <<"a", "b", "c", "d", "e", "f", "g", "h">>

PieceChars == <<"K", "N", "R">>

PieceNames == <<"King", "Knight", "Rook">>

\* Square::from_str
Square_from_str(ch) ==
  IF \E i \in ALL_SQUARES : FileChars[i] = ch
  THEN Some(CHOOSE i \in ALL_SQUARES : FileChars[i] = ch)
  ELSE None

\* ChessMove::from_str: the coordinate form, source square then destination
ChessMove_from_str(input) ==
  IF /\ Len(input) = 2
     /\ Square_from_str(input[1]) # None
     /\ Square_from_str(input[2]) # None
  THEN Ok(ChessMove(unwrap(Square_from_str(input[1])),
                    unwrap(Square_from_str(input[2]))))
  ELSE Err("InvalidUciMove")

\* ChessMove::from_san: the algebraic form, piece letter, "x" on a capture,
\* destination; the move is looked up among the legal moves of the board,
\* in the generator's order
ChessMove_from_san(board, input) ==
  LET takes == Len(input) = 3
      shaped == /\ Len(input) \in {2, 3}
                /\ \E p \in 1..Len(PieceChars) : PieceChars[p] = input[1]
                /\ takes => input[2] = "x"
                /\ Square_from_str(input[Len(input)]) # None
      piece == PieceNames[CHOOSE p \in 1..Len(PieceChars) : PieceChars[p] = input[1]]
      dest  == unwrap(Square_from_str(input[Len(input)]))
      found == SelectSeq(AllMoves,
                         LAMBDA m : /\ m.dest = dest
                                    /\ piece_on(board, m.source) = Some(piece)
                                    /\ takes <=> (piece_on(board, m.dest) # None)
                                    /\ legal(board, m))
  IN  IF shaped /\ found # <<>> THEN Ok(found[1]) ELSE Err("InvalidSanMove")

(***************************************************************************)
(* src/src/game.rs: struct Game and its methods, as functions of `self`.   *)
(***************************************************************************)
TwoPlayer == <<"TwoPlayer">>
SinglePlayer(player_color) == <<"SinglePlayer", player_color>>

Ongoing == <<"Ongoing">>
Checkmate(color) == <<"Checkmate", color>>
Stalemate == <<"Stalemate">>

new_multi ==
  [board |-> Board_default,
   turn |-> "White",
   game_mode |-> TwoPlayer,
   recursion_depth |-> None,
   history |-> <<>>,
   moves |-> <<>>]

\* new_single that leaves the depth out
new_single_no_depth(player_color, depth) ==
  [board |-> Board_default,
   turn |-> "White",
   game_mode |-> SinglePlayer(player_color),
   recursion_depth |-> None,
   history |-> <<>>,
   moves |-> <<>>]

new_single(player_color, depth) ==
  [board |-> Board_default,
   turn |-> "White",
   game_mode |-> SinglePlayer(player_color),
   recursion_depth |-> Some(depth),
   history |-> <<>>,
   moves |-> <<>>]

\* parse_move without the `self.board.legal(mv)` test of the coordinate form
parse_move_unchecked(self, input, uci) ==
  IF uci
  THEN LET r == ChessMove_from_str(input)
       IN  IF is_ok(r) THEN Ok(r[2]) ELSE Err("Invalid input format!")
  ELSE LET r == ChessMove_from_san(self.board, input)
       IN  IF is_ok(r) THEN Ok(r[2]) ELSE Err("Invalid input!")

parse_move(self, input, uci) ==
  IF uci
  THEN LET r == ChessMove_from_str(input)
       IN  IF is_ok(r)
           THEN IF legal(self.board, r[2]) THEN Ok(r[2]) ELSE Err("Illegal move!")
           ELSE Err("Invalid input format!")
  ELSE LET r == ChessMove_from_san(self.board, input)
       IN  IF is_ok(r) THEN Ok(r[2]) ELSE Err("Invalid input!")

\* make_move with the history pushed after the board and the turn are updated
make_move_push_after(self, mv) ==
  [self EXCEPT !.history = Append(self.history,
                                  <<make_move_new(self.board, mv), Not(self.turn)>>),
               !.board = make_move_new(self.board, mv),
               !.turn = Not(self.turn),
               !.moves = Append(self.moves, mv)]

\* make_move without `self.turn = !self.turn`
make_move_keeps_turn(self, mv) ==
  [self EXCEPT !.history = Append(self.history, <<self.board, self.turn>>),
               !.board = make_move_new(self.board, mv),
               !.moves = Append(self.moves, mv)]

make_move(self, mv) ==
  [self EXCEPT !.history = Append(self.history, <<self.board, self.turn>>),
               !.board = make_move_new(self.board, mv),
               !.turn = Not(self.turn),
               !.moves = Append(self.moves, mv)]

\* make_move_from_str that passes the turn even when the move is refused
make_move_from_str_passes_turn(self, input, uci) ==
  LET r == parse_move(self, input, uci)
  IN  IF is_ok(r)
      THEN [self |-> make_move(self, r[2]), ret |-> Ok(Unit)]
      ELSE [self |-> [self EXCEPT !.turn = Not(self.turn)], ret |-> Err(r[2])]

\* [self |-> the game after the call, ret |-> the value returned]
make_move_from_str(self, input, uci) ==
  LET r == parse_move(self, input, uci)
  IN  IF is_ok(r)
      THEN [self |-> make_move(self, r[2]), ret |-> Ok(Unit)]
      ELSE [self |-> self, ret |-> Err(r[2])]

\* a pop that drops the oldest element instead of the newest
pop_front(vec) == IF vec = <<>> THEN vec ELSE SubSeq(vec, 2, Len(vec))

\* Vec::pop, as the vector it leaves
pop(vec) == IF vec = <<>> THEN vec ELSE SubSeq(vec, 1, Len(vec) - 1)

\* undo without `self.moves.pop()`
undo_keeps_log(self) ==
  IF self.history # <<>>
  THEN LET prev == self.history[Len(self.history)]
       IN  [self |-> [self EXCEPT !.history = pop(self.history),
                                  !.board = prev[1],
                                  !.turn = prev[2]],
            ret |-> Ok(Unit)]
  ELSE [self |-> self, ret |-> Err("No moves to undo!")]

\* undo that answers Ok(()) when there is nothing to pop
undo_silent(self) ==
  IF self.history # <<>>
  THEN LET prev == self.history[Len(self.history)]
       IN  [self |-> [self EXCEPT !.history = pop(self.history),
                                  !.board = prev[1],
                                  !.turn = prev[2],
                                  !.moves = pop(self.moves)],
            ret |-> Ok(Unit)]
  ELSE [self |-> self, ret |-> Ok(Unit)]

\* undo without `self.turn = prev_turn`
undo_keeps_turn(self) ==
  IF self.history # <<>>
  THEN LET prev == self.history[Len(self.history)]
       IN  [self |-> [self EXCEPT !.history = pop(self.history),
                                  !.board = prev[1],
                                  !.moves = pop(self.moves)],
            ret |-> Ok(Unit)]
  ELSE [self |-> self, ret |-> Err("No moves to undo!")]

undo(self) ==
  IF self.history # <<>>
  THEN LET prev == self.history[Len(self.history)]
       IN  [self |-> [self EXCEPT !.history = pop(self.history),
                                  !.board = prev[1],
                                  !.turn = prev[2],
                                  !.moves = pop(self.moves)],
            ret |-> Ok(Unit)]
  ELSE [self |-> self, ret |-> Err("No moves to undo!")]

\* status that names the side to move as the winner
status_mover_wins(self) ==
  CASE Board_status(self.board) = "Ongoing"   -> Ongoing
    [] Board_status(self.board) = "Checkmate" -> Checkmate(self.turn)
    [] Board_status(self.board) = "Stalemate" -> Stalemate

status(self) ==
  CASE Board_status(self.board) = "Ongoing"   -> Ongoing
    [] Board_status(self.board) = "Checkmate" -> Checkmate(Not(self.turn))
    [] Board_status(self.board) = "Stalemate" -> Stalemate

\* get_ai_move that, in a two-player game, searches for Black at depth 1
get_ai_move_any_mode(self) ==
  LET ai_color == IF self.game_mode = TwoPlayer THEN "Black" ELSE Not(self.game_mode[2])
      depth == IF self.recursion_depth = None THEN 1 ELSE unwrap(self.recursion_depth)
      best_move == minimax(self.board, depth, TRUE, ai_color, I32_MIN, I32_MAX)[2]
  IN  [ret |-> IF best_move # None
               THEN Ok(unwrap(best_move))
               ELSE Err("No legal moves for AI available"),
       searched |-> TRUE]

\* [ret |-> the value returned, searched |-> whether minimax was called]
get_ai_move(self) ==
  IF self.game_mode = TwoPlayer
  THEN [ret |-> Err("AI can only be used in single player mode"),
        searched |-> FALSE]
  ELSE IF self.recursion_depth = None
  THEN [ret |-> Panic("called Option::unwrap() on a None value"),
        searched |-> FALSE]
  ELSE LET ai_color == Not(self.game_mode[2])
           r == minimax(self.board, unwrap(self.recursion_depth), TRUE,
                        ai_color, I32_MIN, I32_MAX)
           best_move == r[2]
       IN  [ret |-> IF is_panic(r) THEN r
                    ELSE IF best_move # None
                    THEN Ok(unwrap(best_move))
                    ELSE Err("No legal moves for AI available"),
            searched |-> TRUE]

(***************************************************************************)
(* The state: one Game, and the last call made on it with what it returned.*)
(***************************************************************************)
VARIABLES board, turn, game_mode, recursion_depth, history, moves, last_call

vars == <<board, turn, game_mode, recursion_depth, history, moves, last_call>>

Self ==
  [board |-> board, turn |-> turn, game_mode |-> game_mode,
   recursion_depth |-> recursion_depth, history |-> history, moves |-> moves]

\* the Game becomes `g`
Becomes(g) ==
  /\ board' = g.board
  /\ turn' = g.turn
  /\ game_mode' = g.game_mode
  /\ recursion_depth' = g.recursion_depth
  /\ history' = g.history
  /\ moves' = g.moves

\* the texts a caller may hand to make_move_from_str
Texts ==
  {<<>>, <<"x">>}
    \cup {<<FileChars[i], FileChars[j]>> : i, j \in ALL_SQUARES}
    \cup {<<PieceChars[p], FileChars[j]>> : p \in 1..Len(PieceChars), j \in ALL_SQUARES}
    \cup {<<PieceChars[p], "x", FileChars[j]>> :
            p \in 1..Len(PieceChars), j \in ALL_SQUARES}

Init ==
  /\ \E g \in {new_multi} \cup {new_single(c, d) : c \in Color, d \in 0..MaxDepth} :
       /\ board = g.board
       /\ turn = g.turn
       /\ game_mode = g.game_mode
       /\ recursion_depth = g.recursion_depth
       /\ history = g.history
       /\ moves = g.moves
  /\ last_call = [op |-> "new", ret |-> Unit]

\* game.make_move(mv), with a move the caller got from the oracle or the search
MakeMove ==
  /\ Len(moves) < MaxPlies
  /\ \E i \in 1..Len(MoveGen_new_legal(board)) :
       Becomes(make_move(Self, MoveGen_new_legal(board)[i]))
  /\ last_call' = [op |-> "make_move", ret |-> Unit]

MakeMoveFromStr ==
  \E input \in Texts, uci \in BOOLEAN :
    LET r == make_move_from_str(Self, input, uci)
    IN  /\ Len(moves) < MaxPlies \/ ~is_ok(r.ret)
        /\ Becomes(r.self)
        /\ last_call' = [op |-> "make_move_from_str", ret |-> r.ret]

Undo ==
  LET r == undo(Self)
  IN  /\ Becomes(r.self)
      /\ last_call' = [op |-> "undo", ret |-> r.ret]

Status ==
  /\ UNCHANGED <<board, turn, game_mode, recursion_depth, history, moves>>
  /\ last_call' = [op |-> "status", ret |-> status(Self)]

\* get_ai_move that plays the move it found
GetAiMove_applies ==
  LET r == get_ai_move(Self)
  IN  /\ IF is_ok(r.ret)
         THEN Becomes(make_move(Self, r.ret[2]))
         ELSE UNCHANGED <<board, turn, game_mode, recursion_depth, history, moves>>
      /\ last_call' = [op |-> "get_ai_move", ret |-> r.ret, searched |-> r.searched]

GetAiMove ==
  LET r == get_ai_move(Self)
  IN  /\ UNCHANGED <<board, turn, game_mode, recursion_depth, history, moves>>
      /\ last_call' = [op |-> "get_ai_move", ret |-> r.ret, searched |-> r.searched]

\* the accessors turn(), board() and moves()
Turn ==
  /\ UNCHANGED <<board, turn, game_mode, recursion_depth, history, moves>>
  /\ last_call' = [op |-> "turn", ret |-> Self.turn]

Board ==
  /\ UNCHANGED <<board, turn, game_mode, recursion_depth, history, moves>>
  /\ last_call' = [op |-> "board", ret |-> Self.board]

Moves ==
  /\ UNCHANGED <<board, turn, game_mode, recursion_depth, history, moves>>
  /\ last_call' = [op |-> "moves", ret |-> Self.moves]

Next ==
  MakeMove \/ MakeMoveFromStr \/ Undo \/ Status \/ GetAiMove \/ Turn \/ Board \/ Moves

Spec == Init /\ [][Next]_vars

(***************************************************************************)
(* The search as a function of its inputs: every position the rules reach  *)
(* from the starting position, every depth up to MaxDepth, either side.    *)
(***************************************************************************)
SearchInit ==
  /\ board = new_multi.board
  /\ turn = new_multi.turn
  /\ game_mode = new_multi.game_mode
  /\ recursion_depth = new_multi.recursion_depth
  /\ history = new_multi.history
  /\ moves = new_multi.moves
  /\ last_call = [op |-> "new", ret |-> Unit]

\* the next position to search: any legal successor of the current one
Position ==
  /\ \E i \in 1..Len(MoveGen_new_legal(board)) :
       board' = make_move_new(board, MoveGen_new_legal(board)[i])
  /\ turn' = Not(turn)
  /\ UNCHANGED <<game_mode, recursion_depth, history, moves>>
  /\ last_call' = [op |-> "position", ret |-> Unit]

\* the root call get_ai_move makes, on a position not searched yet
Minimax ==
  /\ last_call.op \in {"new", "position"}
  /\ \E depth \in 0..MaxDepth, perspective \in Color :
       last_call' = [op |-> "minimax", depth |-> depth, perspective |-> perspective,
                     ret |-> minimax(board, depth, TRUE, perspective, I32_MIN, I32_MAX)]
  /\ UNCHANGED <<board, turn, game_mode, recursion_depth, history, moves>>

\* the windows <<alpha, beta>> a call is given: the full one of the root,
\* narrowed ones, an empty one and a crossed one
Windows == {<<I32_MIN, I32_MAX>>, <<-5, 5>>, <<0, 0>>, <<3, -3>>, <<I32_MIN, -20>>}

\* a call that meets the test of ai.rs line 33, as the root or below it: any
\* flag, either perspective, any window
MinimaxBase ==
  /\ last_call.op \in {"new", "position"}
  /\ \E depth \in 0..MaxDepth, maximizing \in BOOLEAN, perspective \in Color,
        w \in Windows :
       /\ depth = 0 \/ Board_status(board) # "Ongoing"
       /\ last_call' = [op |-> "minimax_base", depth |-> depth,
                        maximizing |-> maximizing, perspective |-> perspective,
                        alpha |-> w[1], beta |-> w[2],
                        ret |-> minimax(board, depth, maximizing, perspective,
                                        w[1], w[2])]
  /\ UNCHANGED <<board, turn, game_mode, recursion_depth, history, moves>>

SearchNext == Position \/ Minimax \/ MinimaxBase

SearchSpec == SearchInit /\ [][SearchNext]_vars

(***************************************************************************)
(* src/src/cli.rs, single_player: the loop of lines 105-148, one step per  *)
(* call it makes on the Game.  The place of the loop is told by the last   *)
(* call and what it returned.                                              *)
(***************************************************************************)
\* `Game::new_single(player_color, 7)`
CliDepth == 7

\* the `player_color` of single_player
player_color == game_mode[2]

\* the status arms that leave the loop, with the `break`s forgotten
loop_never_breaks(st) == FALSE

\* `Status::Checkmate(_) => break`, `Status::Stalemate => break`
loop_breaks(st) == st # Ongoing

DriverInit ==
  /\ \E c \in Color :
       LET g == new_single(c, CliDepth)
       IN  /\ board = g.board
           /\ turn = g.turn
           /\ game_mode = g.game_mode
           /\ recursion_depth = g.recursion_depth
           /\ history = g.history
           /\ moves = g.moves
  /\ last_call = [op |-> "new", ret |-> Unit]

\* the top of the loop: on entry, after a status that did not break, and
\* after the `continue` of a refused undo or a refused move
AtLoopTop ==
  \/ last_call.op = "new"
  \/ last_call.op = "status" /\ ~loop_breaks(last_call.ret)
  \/ last_call.op \in {"undo", "make_move_from_str"} /\ ~is_ok(last_call.ret)

\* `if game.turn() == player_color`, input "quit"
ReadQuit ==
  /\ AtLoopTop
  /\ Self.turn = player_color
  /\ UNCHANGED <<board, turn, game_mode, recursion_depth, history, moves>>
  /\ last_call' = [op |-> "quit", ret |-> Unit]

\* "undo" that takes back two moves, the AI's and the human's before it
ReadUndo_two_plies ==
  /\ AtLoopTop
  /\ Self.turn = player_color
  /\ LET r == undo(Self)
         q == undo(r.self)
     IN  /\ Becomes(q.self)
         /\ last_call' = [op |-> "undo", ret |-> r.ret]

\* input "undo"
ReadUndo ==
  /\ AtLoopTop
  /\ Self.turn = player_color
  /\ LET r == undo(Self)
     IN  /\ Becomes(r.self)
         /\ last_call' = [op |-> "undo", ret |-> r.ret]

\* input "print": print_move_history reads game.moves()
ReadPrint ==
  /\ AtLoopTop
  /\ Self.turn = player_color
  /\ UNCHANGED <<board, turn, game_mode, recursion_depth, history, moves>>
  /\ last_call' = [op |-> "moves", ret |-> Self.moves]

\* any other input: `game.make_move_from_str(input, false)`
ReadMove ==
  /\ AtLoopTop
  /\ Self.turn = player_color
  /\ \E input \in Texts :
       LET r == make_move_from_str(Self, input, FALSE)
       IN  /\ Len(moves) < MaxPlies \/ ~is_ok(r.ret)
           /\ Becomes(r.self)
           /\ last_call' = [op |-> "make_move_from_str", ret |-> r.ret]

\* the else branch: `match game.get_ai_move()`
AskAi ==
  /\ AtLoopTop
  /\ Self.turn # player_color
  /\ LET r == get_ai_move(Self)
     IN  /\ Len(moves) < MaxPlies \/ ~is_ok(r.ret)
         /\ last_call' = [op |-> "get_ai_move", ret |-> r.ret, searched |-> r.searched]
  /\ UNCHANGED <<board, turn, game_mode, recursion_depth, history, moves>>

\* `Ok(mv) => game.make_move(mv)`
PlayAiMove ==
  /\ last_call.op = "get_ai_move"
  /\ is_ok(last_call.ret)
  /\ Becomes(make_move(Self, last_call.ret[2]))
  /\ last_call' = [op |-> "make_move", ret |-> Unit]

\* `match game.status()`, reached when the branch taken did not `continue`
CheckStatus ==
  /\ \/ last_call.op \in {"undo", "make_move_from_str"} /\ is_ok(last_call.ret)
     \/ last_call.op \in {"moves", "make_move"}
     \/ last_call.op = "get_ai_move" /\ ~is_ok(last_call.ret)
  /\ UNCHANGED <<board, turn, game_mode, recursion_depth, history, moves>>
  /\ last_call' = [op |-> "status", ret |-> status(Self)]

DriverNext ==
  ReadQuit \/ ReadUndo \/ ReadPrint \/ ReadMove \/ AskAi \/ PlayAiMove \/ CheckStatus

DriverSpec == DriverInit /\ [][DriverNext]_vars

(***************************************************************************)
(* Steps of the game, told by the call they record.                        *)
(***************************************************************************)
\* a move was applied: make_move, or make_move_from_str returning Ok
AppliedStep ==
  \/ last_call'.op = "make_move"
  \/ last_call'.op = "make_move_from_str" /\ is_ok(last_call'.ret)

UndoStep == last_call'.op = "undo"

(***************************************************************************)
(* C1  Round trip: after any applied move, an immediate undo() returns Ok  *)
(* and puts board() and turn() back to their values before the move.       *)
(***************************************************************************)
C1_RoundTrip ==
  [][AppliedStep =>
       /\ undo(Self').ret = Ok(Unit)
       /\ undo(Self').self.board = board
       /\ undo(Self').self.turn = turn]_vars

\* an undo that took back a move played on top of an earlier one
C1_Witness ==
  /\ last_call.op = "undo"
  /\ is_ok(last_call.ret)
  /\ moves # <<>>
  /\ board # Board_default

(***************************************************************************)
(* C2  The history and the move log have the same length in every state;   *)
(* an applied move grows both by exactly one, a successful undo shrinks    *)
(* both by exactly one, and no other call changes either.                  *)
(***************************************************************************)
C2_HistoryLogMatched ==
  /\ [](Len(history) = Len(moves))
  /\ [][/\ AppliedStep =>
             /\ Len(history') = Len(history) + 1
             /\ Len(moves') = Len(moves) + 1
        /\ (UndoStep /\ is_ok(last_call'.ret)) =>
             /\ Len(history') = Len(history) - 1
             /\ Len(moves') = Len(moves) - 1
        /\ ~AppliedStep /\ ~(UndoStep /\ is_ok(last_call'.ret)) =>
             UNCHANGED <<history, moves>>]_vars

\* two moves applied, then one taken back
C2_Witness ==
  /\ last_call.op = "undo"
  /\ is_ok(last_call.ret)
  /\ Len(history) = MaxPlies - 1
  /\ Len(moves) = MaxPlies - 1

(***************************************************************************)
(* C3  Turn alternation: every applied move changes turn() to the other    *)
(* side; turn() after the call is never turn() before it.                  *)
(***************************************************************************)
C3_TurnAlternates ==
  [][AppliedStep => turn' = Not(turn) /\ turn' # turn]_vars

\* White to move again after two applied moves, the second one given as text
C3_Witness ==
  /\ last_call.op = "make_move_from_str"
  /\ is_ok(last_call.ret)
  /\ Len(moves) = 2
  /\ turn = "White"

(***************************************************************************)
(* C4  undo() on an empty history returns the "no history" error and       *)
(* leaves the board, the turn, the history and the move log unchanged.     *)
(***************************************************************************)
C4_UndoOnEmptyHistory ==
  [][(UndoStep /\ history = <<>>) =>
       /\ last_call'.ret = Err("No moves to undo!")
       /\ UNCHANGED <<board, turn, history, moves>>]_vars

\* undo refused on a game with nothing to take back
C4_Witness ==
  /\ last_call.op = "undo"
  /\ last_call.ret = Err("No moves to undo!")
  /\ history = <<>>
  /\ board = Board_default

(***************************************************************************)
(* Reference searches, for the claims that compare minimax with them.      *)
(***************************************************************************)
RECURSIVE Negamax(_, _, _)
\* single-sign negamax: evaluate(p, s) at depth 0 or on a terminal position,
\* else the first maximum, in the oracle's order, of -Negamax of the children
Negamax(p, d, s) ==
  IF d = 0 \/ Board_status(p) # "Ongoing"
  THEN <<evaluate(p, s), None>>
  ELSE LET gen  == MoveGen_new_legal(p)
           vals == [i \in 1..Len(gen) |->
                      0 - Negamax(make_move_new(p, gen[i]), d - 1, Not(s))[1]]
           best == CHOOSE i \in 1..Len(gen) :
                     /\ \A j \in 1..Len(gen) : vals[j] <= vals[i]
                     /\ \A j \in 1..(i - 1) : vals[j] < vals[i]
       IN  <<vals[best], Some(gen[best])>>

RECURSIVE Exhaustive(_, _, _, _)
\* the score of minimax's recursion with the `beta <= alpha` break removed:
\* every child is searched, the maximizer keeps the greatest score and the
\* minimizer the least
Exhaustive(p, d, maximizing, s) ==
  IF d = 0 \/ Board_status(p) # "Ongoing"
  THEN evaluate(p, s)
  ELSE LET gen  == MoveGen_new_legal(p)
           vals == {Exhaustive(make_move_new(p, gen[i]), d - 1, ~maximizing, Not(s)) :
                      i \in 1..Len(gen)}
       IN  IF maximizing
           THEN CHOOSE v \in vals : \A u \in vals : u <= v
           ELSE CHOOSE v \in vals : \A u \in vals : u >= v

\* a root call of the search has just returned
Searched == last_call.op = "minimax"

(***************************************************************************)
(* C5  The search equals single-sign negamax: the root call                *)
(* minimax(p, d, true, s, MIN, MAX) returns the score and the move of      *)
(* Negamax(p, d, s), for every position and depth; stated for the calls    *)
(* in which s, the side searched for, is the side to move in p.            *)
(***************************************************************************)
C5_EqualsNegamax ==
  (Searched /\ last_call.perspective = board.side_to_move) =>
     last_call.ret = Negamax(board, last_call.depth, last_call.perspective)

(***************************************************************************)
(* C6  Move legality: at depth >= 1 a move returned by the root call is a  *)
(* legal move of the position, and on an Ongoing position a move is        *)
(* returned.                                                               *)
(***************************************************************************)
C6_MoveLegality ==
  (Searched /\ last_call.depth >= 1) =>
     /\ last_call.ret[2] # None =>
          \E i \in 1..Len(MoveGen_new_legal(board)) :
             MoveGen_new_legal(board)[i] = unwrap(last_call.ret[2])
     /\ Board_status(board) = "Ongoing" => last_call.ret[2] # None

\* a deep search of a position with a choice of moves returned one of them
C6_Witness ==
  /\ Searched
  /\ last_call.depth = MaxDepth
  /\ Len(MoveGen_new_legal(board)) >= 3
  /\ last_call.ret[2] # None

(***************************************************************************)
(* C7  Pruning correctness: the root call returns the score of the same    *)
(* recursion without cut-offs, and the returned move is one whose          *)
(* exhaustively searched subtree has that score.                           *)
(***************************************************************************)
C7_PruningCorrect ==
  Searched =>
     /\ last_call.ret[1] = Exhaustive(board, last_call.depth, TRUE, last_call.perspective)
     /\ last_call.ret[2] # None =>
          Exhaustive(make_move_new(board, unwrap(last_call.ret[2])),
                     last_call.depth - 1, FALSE, Not(last_call.perspective))
            = last_call.ret[1]

\* a search in which a cut-off changed what a subtree returned: a sibling
\* after the chosen move, searched with alpha at the root's score, answers
\* with a bound above its exhaustive score
C7_Witness ==
  /\ Searched
  /\ last_call.depth >= 2
  /\ last_call.ret[2] # None
  /\ LET gen == MoveGen_new_legal(board)
     IN  \E i, b \in 1..Len(gen) :
            /\ gen[b] = unwrap(last_call.ret[2])
            /\ b < i
            /\ minimax(make_move_new(board, gen[i]), last_call.depth - 1, FALSE,
                       Not(last_call.perspective), last_call.ret[1], I32_MAX)[1]
                 > Exhaustive(make_move_new(board, gen[i]), last_call.depth - 1,
                              FALSE, Not(last_call.perspective))

(***************************************************************************)
(* C8  status(): on checkmate the winner is the side not to move, which is *)
(* the side whose piece made the last move of the log; stalemate maps to   *)
(* Stalemate and an ongoing position to Ongoing.                           *)
(***************************************************************************)
C8_StatusWinner ==
  last_call.op = "status" =>
     /\ Board_status(board) = "Checkmate" =>
          /\ last_call.ret = Checkmate(Not(turn))
          /\ moves # <<>>
          /\ color_on(board, moves[Len(moves)].dest) = Some(last_call.ret[2])
     /\ Board_status(board) = "Stalemate" => last_call.ret = Stalemate
     /\ Board_status(board) = "Ongoing" => last_call.ret = Ongoing

\* White has mated: status() names White after an odd number of moves
C8_Witness ==
  /\ last_call.op = "status"
  /\ last_call.ret = Checkmate("White")
  /\ Len(moves) = 3

(***************************************************************************)
(* C9  In a two-player game get_ai_move() returns the "AI not available"   *)
(* error in every state, without running the search.                       *)
(***************************************************************************)
C9_AiNotAvailable ==
  (game_mode = TwoPlayer /\ last_call.op = "get_ai_move") =>
     /\ last_call.ret = Err("AI can only be used in single player mode")
     /\ ~last_call.searched

\* the AI asked for a move in a two-player game with moves on the board
C9_Witness ==
  /\ game_mode = TwoPlayer
  /\ last_call.op = "get_ai_move"
  /\ Len(moves) >= 2

(***************************************************************************)
(* C10  In a single-player game get_ai_move() returns the "no legal moves" *)
(* error exactly when status() is not Ongoing, and Ok(move) on every       *)
(* Ongoing position.                                                       *)
(***************************************************************************)
C10_NoLegalMovesIffTerminal ==
  (game_mode # TwoPlayer /\ last_call.op = "get_ai_move") =>
     /\ (last_call.ret = Err("No legal moves for AI available"))
          <=> (status(Self) # Ongoing)
     /\ status(Self) = Ongoing => is_ok(last_call.ret)

C12_AiMoveFrame ==
  [][/\ last_call'.op = "get_ai_move" => UNCHANGED <<board, turn, history, moves>>
     /\ (moves' # moves \/ board' # board) => (AppliedStep \/ UndoStep)]_vars

\* the search returned a move in mid-game
C12_Witness ==
  /\ last_call.op = "get_ai_move"
  /\ last_call.searched
  /\ is_ok(last_call.ret)
  /\ Len(moves) = 2

(***************************************************************************)
(* C13  Evaluator symmetry: for every position p,                          *)
(* evaluate(p, White) = -evaluate(p, Black); the piece values are pawn 1,  *)
(* knight 3, bishop 3, rook 5, queen 9, king 20, added for the pieces of   *)
(* the perspective side and subtracted for the pieces of the other side.   *)
(***************************************************************************)
\* the number of pieces of that kind and color on the board
Count(p, piece, color) ==
  Cardinality({sq \in ALL_SQUARES : /\ piece_on(p, sq) = Some(piece)
                                    /\ color_on(p, sq) = Some(color)})

\* the value of the pieces of one side
Material(p, color) ==
  20 * Count(p, "King", color) + 9 * Count(p, "Queen", color)
    + 5 * Count(p, "Rook", color) + 3 * Count(p, "Bishop", color)
    + 3 * Count(p, "Knight", color) + 1 * Count(p, "Pawn", color)

C13_EvaluateSymmetry ==
  /\ evaluate(board, "White") = 0 - evaluate(board, "Black")
  /\ \A s \in Color : evaluate(board, s) = Material(board, s) - Material(board, Not(s))
  /\ <<piece_value("Pawn"), piece_value("Knight"), piece_value("Bishop"),
       piece_value("Rook"), piece_value("Queen"), piece_value("King")>>
       = <<1, 3, 3, 5, 9, 20>>

\* a position of unequal material, evaluated by a search of depth 0
C13_Witness ==
  /\ Searched
  /\ last_call.depth = 0
  /\ last_call.ret[1] = evaluate(board, last_call.perspective)
  /\ evaluate(board, "White") = 5
  /\ evaluate(board, "Black") = -5

(***************************************************************************)
(* C14  Base case: for every position p, either value of the maximizing    *)
(* flag, either perspective and every window, minimax(p, 0, _, persp,      *)
(* alpha, beta) returns (evaluate(p, persp), None); so does a call of any  *)
(* depth on a position that is not Ongoing.                                *)
(***************************************************************************)
C14_BaseCase ==
  last_call.op = "minimax_base" =>
     last_call.ret = <<evaluate(board, last_call.perspective), None>>

\* a call of depth 2 as the minimizing side, with a crossed window, on a
\* finished position of unequal material
C14_Witness ==
  /\ last_call.op = "minimax_base"
  /\ last_call.depth = 2
  /\ ~last_call.maximizing
  /\ last_call.alpha > last_call.beta
  /\ Board_status(board) # "Ongoing"
  /\ last_call.ret[1] # 0

(***************************************************************************)
(* C15  Tie-break: the move the root call (maximizing, full window)        *)
(* returns is the first move, in the oracle's order, whose subtree has the *)
(* returned score; no later move of equal score replaces it.  The subtree  *)
(* scores are those of the recursion without cut-offs, so the move is the  *)
(* same with and without pruning.                                          *)
(***************************************************************************)
\* the score, without cut-offs, of the subtree of the j-th move of the
\* position last searched
SubtreeScore(j) ==
  Exhaustive(make_move_new(board, MoveGen_new_legal(board)[j]),
             last_call.depth - 1, FALSE, Not(last_call.perspective))

C15_TieBreak ==
  (Searched /\ last_call.ret[2] # None) =>
     \E b \in 1..Len(MoveGen_new_legal(board)) :
        /\ MoveGen_new_legal(board)[b] = unwrap(last_call.ret[2])
        /\ SubtreeScore(b) = last_call.ret[1]
        /\ \A j \in 1..(b - 1) : SubtreeScore(j) < last_call.ret[1]
        /\ \A j \in 1..Len(MoveGen_new_legal(board)) : SubtreeScore(j) <= last_call.ret[1]

\* a deep search in which a later move ties with the move returned
C15_Witness ==
  /\ Searched
  /\ last_call.depth = MaxDepth
  /\ last_call.ret[2] # None
  /\ \E b, j \in 1..Len(MoveGen_new_legal(board)) :
        /\ MoveGen_new_legal(board)[b] = unwrap(last_call.ret[2])
        /\ b < j
        /\ SubtreeScore(j) = last_call.ret[1]

(***************************************************************************)
(* C16  No call of make_move_from_str, undo, status, turn, board, moves or *)
(* get_ai_move aborts in a reachable state: each returns a value of its    *)
(* return type, a failure being an Err; wherever get_ai_move reaches the   *)
(* unwrap of recursion_depth the depth is present, and no `depth - 1` of   *)
(* the search overflows.                                                   *)
(***************************************************************************)
C16_NoAbort ==
  /\ last_call.op \in {"make_move_from_str", "undo", "get_ai_move"} =>
        \/ last_call.ret = Ok(Unit)
        \/ last_call.op = "get_ai_move" /\ Len(last_call.ret) = 2 /\ is_ok(last_call.ret)
        \/ last_call.ret \in {Err("Invalid input format!"), Err("Illegal move!"),
                              Err("Invalid input!"), Err("No moves to undo!"),
                              Err("AI can only be used in single player mode"),
                              Err("No legal moves for AI available")}
  /\ last_call.op = "status" =>
        last_call.ret \in {Ongoing, Stalemate} \cup {Checkmate(c) : c \in Color}
  /\ last_call.op = "turn" => last_call.ret \in Color
  /\ last_call.op = "board" => last_call.ret = board
  /\ last_call.op = "moves" => last_call.ret = moves
  /\ game_mode # TwoPlayer => recursion_depth # None
  /\ game_mode # TwoPlayer =>
        \A d \in 1..unwrap(recursion_depth) : child_depth(d) # None

\* a search one level deep, the level at which `depth - 1` reaches zero,
\* returned a move in mid-game
C16_Witness ==
  /\ last_call.op = "get_ai_move"
  /\ last_call.searched
  /\ recursion_depth = Some(1)
  /\ is_ok(last_call.ret)
  /\ Len(moves) = 2

(***************************************************************************)
(* C17  In every reachable state the search depth is present exactly when  *)
(* the game mode is SinglePlayer, and no call changes the mode or the      *)
(* depth: both keep the values given at construction.                      *)
(***************************************************************************)
C17_ModeAndDepth ==
  /\ []((recursion_depth # None) <=> (game_mode # TwoPlayer))
  /\ []((game_mode = TwoPlayer) \/ (\E c \in Color : game_mode = SinglePlayer(c)))
  /\ [][UNCHANGED <<game_mode, recursion_depth>>]_vars

\* a single-player game of the deepest search, after a move was taken back
C17_Witness ==
  /\ game_mode = SinglePlayer("Black")
  /\ recursion_depth = Some(MaxDepth)
  /\ last_call.op = "undo"
  /\ is_ok(last_call.ret)
  /\ Len(moves) = 1

(***************************************************************************)
(* C18  Every call of the search returns, and the nesting of recursive     *)
(* minimax calls below the root never exceeds the depth the root was       *)
(* given: a call that recurses has depth >= 1 and an Ongoing position, and *)
(* makes its recursive calls with depth exactly one less.                  *)
(***************************************************************************)
RECURSIVE Nesting(_, _, _)
\* the deepest nesting of recursive calls below the call minimax(p, depth, ..),
\* over all the children the loop can visit, counted no further than `fuel`
Nesting(p, depth, fuel) ==
  IF base_case(p, depth) \/ fuel = 0 \/ MoveGen_new_legal(p) = <<>> THEN 0
  ELSE IF child_depth(depth) = None THEN fuel
  ELSE LET gen == MoveGen_new_legal(p)
           below == {Nesting(make_move_new(p, gen[i]), unwrap(child_depth(depth)),
                             fuel - 1) : i \in 1..Len(gen)}
       IN  1 + CHOOSE n \in below : \A k \in below : k <= n

C18_BoundedRecursion ==
  /\ last_call.op \in {"new", "position"} =>
        \A d \in 0..MaxDepth :
           /\ Nesting(board, d, d + 1) <= d
           /\ ~base_case(board, d) =>
                 /\ d >= 1
                 /\ Board_status(board) = "Ongoing"
                 /\ child_depth(d) = Some(d - 1)
  /\ last_call.op \in {"minimax", "minimax_base"} => ~is_panic(last_call.ret)

\* a search of the greatest depth that nested to exactly that depth, while
\* one of its branches ended at once on a finished position
C18_Witness ==
  /\ Searched
  /\ last_call.depth = MaxDepth
  /\ Nesting(board, MaxDepth, MaxDepth + 1) = MaxDepth
  /\ \E i \in 1..Len(MoveGen_new_legal(board)) :
        Board_status(make_move_new(board, MoveGen_new_legal(board)[i])) # "Ongoing"

(***************************************************************************)
(* C19  In the single-player loop, get_ai_move is requested only when the  *)
(* game is Ongoing and turn() is the AI's side, the opposite of the        *)
(* human's colour; the move it returns is applied to the very state it was *)
(* requested in, as the next call; and the human's input is read only when *)
(* turn() is the human's side.                                             *)
(***************************************************************************)
C19_DriverTurns ==
  [][/\ last_call'.op = "get_ai_move" =>
          /\ status(Self) = Ongoing
          /\ turn = Not(player_color)
          /\ Self' = Self
     /\ (last_call.op = "get_ai_move" /\ is_ok(last_call.ret)) =>
          /\ last_call'.op = "make_move"
          /\ Self' = make_move(Self, last_call.ret[2])
          /\ get_ai_move(Self).ret = last_call.ret
     /\ last_call'.op \in {"quit", "undo", "moves", "make_move_from_str"} =>
          turn = player_color]_vars

\* the AI, playing Black, answered the human's first move
C19_Witness ==
  /\ last_call.op = "make_move"
  /\ player_color = "White"
  /\ turn = "White"
  /\ Len(moves) = 2

(***************************************************************************)
(* C20  A make_move_from_str that returns an Err, under either notation,   *)
(* leaves the game unchanged: board(), turn(), the history and the move    *)
(* log are the same as before the call.                                    *)
(***************************************************************************)
C20_FailedMoveFrame ==
  [][(last_call'.op = "make_move_from_str" /\ ~is_ok(last_call'.ret)) =>
        UNCHANGED <<board, turn, game_mode, recursion_depth, history, moves>>]_vars

\* an algebraic text refused in mid-game, the board no longer the first one
C20_Witness ==
  /\ last_call.op = "make_move_from_str"
  /\ last_call.ret = Err("Invalid input!")
  /\ Len(moves) = 2
  /\ board # Board_default

(***************************************************************************)
(* C21  In every reachable state the stored turn agrees with the move log  *)
(* and with the position: turn() is White exactly when the length of       *)
(* moves() is even, and turn() is the side to move of board(); after any   *)
(* mix of applied moves and undos.                                         *)
(***************************************************************************)
C21_TurnAgrees ==
  /\ (turn = "White") <=> (Len(moves) % 2 = 0)
  /\ turn = board.side_to_move

\* Black to move after two moves were applied and one of them taken back
C21_Witness ==
  /\ last_call.op = "undo"
  /\ is_ok(last_call.ret)
  /\ Len(moves) = 1
  /\ turn = "Black"
  /\ board.side_to_move = "Black"

(***************************************************************************)
(* C22  Replay consistency: in every reachable state history[i] is the     *)
(* (position, side) that held just before moves()[i] was applied, the      *)
(* first entry of the history is the starting position with White to move, *)
(* and applying the moves of the log in order to the starting position     *)
(* yields board(); moves taken back leave no trace in either sequence.     *)
(***************************************************************************)
RECURSIVE Replay(_)
\* the position after the first n moves of the log, from the starting position
Replay(n) ==
  IF n = 0 THEN Board_default ELSE make_move_new(Replay(n - 1), moves[n])

C22_ReplayConsistent ==
  /\ Len(history) = Len(moves)
  /\ \A i \in 1..Len(history) :
        history[i] = <<Replay(i - 1), IF i % 2 = 1 THEN "White" ELSE "Black">>
  /\ history # <<>> => history[1] = <<Board_default, "White">>
  /\ Replay(Len(moves)) = board

\* three moves applied and the last one taken back: two entries remain
C22_Witness ==
  /\ last_call.op = "undo"
  /\ is_ok(last_call.ret)
  /\ Len(moves) = 2
  /\ Len(history) = 2
  /\ history[2][1] # Board_default
  /\ board = Replay(2)

(***************************************************************************)
(* C23  In the single-player loop an accepted "undo" of the human is a net *)
(* no-op: it pops the AI's last move and nothing else, the loop goes on    *)
(* through the status check to ask the AI in the restored position, the    *)
(* search returns the move it returned before, and applying it gives back  *)
(* the board, turn, history and move log held before the undo; the human's *)
(* own move is never taken back.                                           *)
(***************************************************************************)
C23_UndoNetNoOp ==
  [][/\ (last_call'.op = "undo" /\ is_ok(last_call'.ret)) =>
          /\ turn = player_color
          /\ moves' = pop(moves)
          /\ history' = pop(history)
          /\ history[Len(history)][2] = Not(player_color)
          /\ turn' = Not(player_color)
          /\ status(Self') = Ongoing
          /\ is_ok(get_ai_move(Self').ret)
          /\ get_ai_move(Self').ret[2] = moves[Len(moves)]
          /\ make_move(Self', get_ai_move(Self').ret[2]) = Self
     /\ (last_call.op = "undo" /\ is_ok(last_call.ret)) =>
          /\ last_call'.op = "status"
          /\ last_call'.ret = Ongoing
          /\ Self' = Self
     /\ (last_call.op = "status" /\ ~loop_breaks(last_call.ret)
           /\ turn # player_color /\ Len(moves) < MaxPlies) =>
          /\ last_call'.op = "get_ai_move"
          /\ Self' = Self]_vars

\* the human, playing White, took back the AI's answer to their first move
C23_Witness ==
  /\ last_call.op = "undo"
  /\ is_ok(last_call.ret)
  /\ player_color = "White"
  /\ Len(moves) = 1
  /\ turn = "Black"

(***************************************************************************)
(* C24  The score any minimax call returns is never i32::MIN or i32::MAX,  *)
(* the values best_eval, alpha and beta start from: it is evaluate(q, side)*)
(* of a position q of the searched subtree, so its absolute value is at    *)
(* most the material on the board, and no sum of the evaluation leaves the *)
(* i32 range.  The calls are the root calls, of depth up to MaxDepth, and  *)
(* the calls below a root, of depth below MaxDepth, with either flag and   *)
(* any window.                                                             *)
(***************************************************************************)
\* the material of both sides
TotalMaterial(p) == Material(p, "White") + Material(p, "Black")

RECURSIVE IsLeafScore(_, _, _, _)
\* whether `score` is what evaluate returns on a position at which the
\* recursion below minimax(p, depth, _, s, ..) can stop, with the perspective
\* that position is reached with
IsLeafScore(score, p, depth, s) ==
  IF base_case(p, depth) THEN score = evaluate(p, s)
  ELSE LET gen == MoveGen_new_legal(p)
       IN  \E i \in 1..Len(gen) :
              IsLeafScore(score, make_move_new(p, gen[i]), depth - 1, Not(s))

\* a score that is no sentinel, is a leaf's evaluation and is within the
\* material of p
SoundScore(score, p, depth, s) ==
  /\ score \notin {I32_MIN, I32_MAX}
  /\ score <= TotalMaterial(p)
  /\ 0 - score <= TotalMaterial(p)
  /\ IsLeafScore(score, p, depth, s)

C24_ScoreNoSentinel ==
  /\ last_call.op \in {"minimax", "minimax_base"} =>
        SoundScore(last_call.ret[1], board, last_call.depth, last_call.perspective)
  /\ last_call.op \in {"new", "position"} =>
        /\ \A depth \in 1..(MaxDepth - 1), maximizing \in BOOLEAN, s \in Color,
                 w \in Windows :
              SoundScore(minimax(board, depth, maximizing, s, w[1], w[2])[1],
                         board, depth, s)
        /\ \A s \in Color, sq \in ALL_SQUARES :
              /\ evaluate_from(board, s, sq) <= TotalMaterial(board)
              /\ 0 - evaluate_from(board, s, sq) <= TotalMaterial(board)
        /\ TotalMaterial(board) < I32_MAX

\* a deep root call on an Ongoing position whose score is a mate's material
\* balance, not the least i32 it started from
C24_Witness ==
  /\ Searched
  /\ last_call.depth = MaxDepth
  /\ Board_status(board) = "Ongoing"
  /\ last_call.ret[2] # None
  /\ last_call.ret[1] < 0
  /\ last_call.ret[1] > I32_MIN

=============================================================================
